---- MODULE Spec2Model ----
(***************************************************************************)
(* Digital Safe web interface (src/sketch.js).                             *)
(*                                                                         *)
(* A JavaScript string is modelled as a sequence of one-character strings, *)
(* so that startsWith, slice, trim, toUpperCase and the relational         *)
(* operators on strings are computed the way the engine computes them      *)
(* (by UTF-16 code unit).                                                  *)
(***************************************************************************)
EXTENDS Integers, Sequences, FiniteSets, TLC

VARIABLES
  lockState,    \* let lockState
  entered,      \* let entered
  port,         \* let port
  reader,       \* the global reader that connectSerial assigns
  nativePort,   \* the global nativePort that connectSerial assigns
  connectBtn,   \* label of the button; "Connected" is the disabled state
  serial,       \* "serial" in navigator
  calls,        \* the connectSerial() calls: where each one is
  ports,        \* the serial ports of the machine: closed, opening, open
  alerts,       \* number of alert() dialogs shown
  readers,      \* the stream readers created: source and pending reads
  loops,        \* the read loops launched: status and buf
  consumed,     \* text a read loop has received so far
  forwarded,    \* lines a read loop has passed to handleLine so far
  line,         \* argument of the latest handleLine call
  op,           \* the operation that ran last
  hist          \* the inputs so far, in order (key lines, chunks)

connVars ==
  <<reader, nativePort, connectBtn, serial, calls, ports, alerts, readers,
    loops>>

readLog == <<consumed, forwarded>>

vars == <<lockState, entered, port, connVars, line, op, hist, readLog>>

(***************************************************************************)
(* Characters and their UTF-16 code units.                                 *)
(***************************************************************************)
CodeTable ==
  <<  <<"\n", 10>>, <<"\r", 13>>, <<" ", 32>>, <<"#", 35>>, <<"*", 42>>, <<"/", 47>>,
      <<"0", 48>>, <<"1", 49>>, <<"2", 50>>, <<"3", 51>>, <<"4", 52>>,
      <<"5", 53>>, <<"6", 54>>, <<"7", 55>>, <<"8", 56>>, <<"9", 57>>,
      <<":", 58>>,
      <<"A", 65>>, <<"B", 66>>, <<"C", 67>>, <<"D", 68>>, <<"E", 69>>,
      <<"G", 71>>, <<"I", 73>>, <<"K", 75>>, <<"L", 76>>, <<"N", 78>>,
      <<"O", 79>>, <<"R", 82>>, <<"S", 83>>, <<"T", 84>>, <<"U", 85>>,
      <<"W", 87>>, <<"X", 88>>, <<"Y", 89>>,
      <<"a", 97>>, <<"c", 99>>, <<"d", 100>>, <<"e", 101>>, <<"g", 103>>,
      <<"i", 105>>, <<"k", 107>>, <<"l", 108>>, <<"n", 110>>, <<"o", 111>>,
      <<"r", 114>>, <<"s", 115>>, <<"t", 116>>, <<"u", 117>>, <<"w", 119>>,
      <<"x", 120>>, <<"y", 121>>  >>

Chars == { CodeTable[i][1] : i \in DOMAIN CodeTable }

CodeOf ==
  [c \in Chars |-> CodeTable[CHOOSE i \in DOMAIN CodeTable : CodeTable[i][1] = c][2]]

Code(c) == CodeOf[c]

Chr(n) == CodeTable[CHOOSE i \in DOMAIN CodeTable : CodeTable[i][2] = n][1]

(***************************************************************************)
(* String primitives of the engine, as the code uses them.                 *)
(***************************************************************************)
\* a < b on strings: the first differing code unit decides; a proper
\* prefix is smaller.
RECURSIVE StrLT(_, _)
StrLT(a, b) ==
  IF b = <<>> THEN FALSE
  ELSE IF a = <<>> THEN TRUE
  ELSE IF Code(Head(a)) # Code(Head(b)) THEN Code(Head(a)) < Code(Head(b))
  ELSE StrLT(Tail(a), Tail(b))

StrLE(a, b) == a = b \/ StrLT(a, b)

StrGE(a, b) == StrLE(b, a)

\* String.prototype.startsWith
startsWith(s, p) == Len(s) >= Len(p) /\ SubSeq(s, 1, Len(p)) = p

\* s.slice(n) for 0 <= n
sliceFrom(s, n) == IF n >= Len(s) THEN <<>> ELSE SubSeq(s, n + 1, Len(s))

IsSpace(c) == c \in {" ", "\r", "\n"}

RECURSIVE trimStart(_)
trimStart(s) ==
  IF s # <<>> /\ IsSpace(Head(s)) THEN trimStart(Tail(s)) ELSE s

RECURSIVE trimEnd(_)
trimEnd(s) ==
  IF s # <<>> /\ IsSpace(s[Len(s)]) THEN trimEnd(SubSeq(s, 1, Len(s) - 1))
  ELSE s

\* String.prototype.trim
trim(s) == trimEnd(trimStart(s))

IdentityChar(c) == c

toUpperChar(c) ==
  IF Code(c) >= 97 /\ Code(c) <= 122 THEN Chr(Code(c) - 32) ELSE c

\* String.prototype.toUpperCase
toUpperCase(s) == [i \in 1..Len(s) |-> toUpperChar(s[i])]

(***************************************************************************)
(* Literals of handleLine.                                                 *)
(***************************************************************************)
KEY_PREFIX == <<"K", "E", "Y", ":">>
STATE_PREFIX == <<"S", "T", "A", "T", "E", ":">>
UNLOCKED == <<"U", "N", "L", "O", "C", "K", "E", "D">>
WRONG == <<"W", "R", "O", "N", "G">>
IDLE == <<"I", "D", "L", "E">>
STAR == <<"*">>
MaxDigits == 4

LockStates == {"LOCKED", "UNLOCKED", "WRONG"}

(***************************************************************************)
(* handleLine(line), src/sketch.js:156-172, as a function from the two     *)
(* globals and the line to the two globals.                                *)
(***************************************************************************)
St(ls, en) == [lockState |-> ls, entered |-> en]

\* k >= "0" && k <= "9" && entered.length < 4
NoRoomCheck(en, k) == StrGE(k, <<"0">>) /\ StrLE(k, <<"9">>) /\ Len(en) <= MaxDigits

isNumber(en, k) == StrGE(k, <<"0">>) /\ StrLE(k, <<"9">>) /\ Len(en) < MaxDigits

\* entered += k
PrependKey(en, k) == k \o en

addNumber(en, k) == en \o k

\* k === "*" && entered.length
isDelete(en, k) == k = STAR /\ Len(en) # 0

\* entered.slice(0, -1)
DropFirst(en) == Tail(en)

deleteLast(en) == SubSeq(en, 1, Len(en) - 1)

KeyTouchesLock(ls, en, k) ==
  IF isNumber(en, k) THEN St("LOCKED", addNumber(en, k))
  ELSE IF isDelete(en, k) THEN St("LOCKED", deleteLast(en))
  ELSE St(ls, en)

keyBranch(ls, en, k) ==
  IF isNumber(en, k) THEN St(ls, addNumber(en, k))
  ELSE IF isDelete(en, k) THEN St(ls, deleteLast(en))
  ELSE St(ls, en)

StateKeepsDigits(ls, en, s) ==
  IF s = UNLOCKED THEN St("UNLOCKED", en)
  ELSE IF s = WRONG THEN St("WRONG", en)
  ELSE IF s = IDLE THEN St("LOCKED", en)
  ELSE St(ls, en)

IdleClears(ls, en, s) ==
  IF s = UNLOCKED THEN St("UNLOCKED", <<>>)
  ELSE IF s = WRONG THEN St("WRONG", <<>>)
  ELSE IF s = IDLE THEN St("LOCKED", <<>>)
  ELSE St(ls, en)

stateBranch(ls, en, s) ==
  IF s = UNLOCKED THEN St("UNLOCKED", <<>>)
  ELSE IF s = WRONG THEN St("WRONG", <<>>)
  ELSE IF s = IDLE THEN St("LOCKED", en)
  ELSE St(ls, en)

handleLine(ls, en, l) ==
  IF startsWith(l, KEY_PREFIX)
  THEN keyBranch(ls, en, trim(sliceFrom(l, 4)))
  ELSE IF startsWith(l, STATE_PREFIX)
  THEN stateBranch(ls, en, toUpperCase(trim(sliceFrom(l, 6))))
  ELSE St(ls, en)

(***************************************************************************)
(* Lines handed to handleLine.                                             *)
(***************************************************************************)
K(p) == KEY_PREFIX \o p
S(p) == STATE_PREFIX \o p

KeyPayloads ==
  { <<>>, <<"0">>, <<"5">>, <<"9">>, <<"*">>, <<"#">>, <<"A">>, <<"D">>,
    <<"/">>, <<":">>, <<" ">>, <<" ", "5">>, <<"5", "\r">>, <<" ", "*", " ">>,
    <<"1", "2">>, <<"5", "x">>, <<"9", "x">>, <<"*", "*">>, <<"*", "5">> }

StatePayloads ==
  { UNLOCKED, WRONG, IDLE, <<>>,
    <<"w", "r", "o", "n", "g">>, <<" ", "I", "d", "l", "e", "\r">>,
    <<"L", "O", "C", "K", "E", "D">>, <<"U", "N", "L", "O", "C", "K">>,
    <<"I", "D", "L", "E", "D">>, <<"W", "R", "O", "N", "G", " ", "1">> }

OtherLines ==
  { <<>>, <<"K", "E", "Y">>, <<"k", "e", "y", ":", "5">>,
    <<" ", "K", "E", "Y", ":", "5">>, <<"S", "T", "A", "T", "E">>,
    <<"s", "t", "a", "t", "e", ":", "W", "R", "O", "N", "G">>,
    <<"X", "S", "T", "A", "T", "E", ":", "I", "D", "L", "E">>,
    <<"5">>, <<"*">>, WRONG }

Lines ==
  { K(p) : p \in KeyPayloads } \cup { S(p) : p \in StatePayloads }
    \cup OtherLines

(***************************************************************************)
(* State and operations.                                                   *)
(***************************************************************************)
MaxCalls == 2

CallIds == 1..MaxCalls

\* the serial devices the chooser offers
Devices == {"usbA", "usbB"}

\* a call: where it is, the port it opens, the exception its catch received
NoCall == [at |-> "unused", port |-> "none", err |-> "none"]

\* a reader that does not exist yet, a loop that has not been launched
NoReader == [src |-> "none", queue |-> <<>>]
NoLoop == [status |-> "none", buf |-> <<>>]

\* the globals after the script has loaded: reader and nativePort are
\* declared nowhere, they come into existence when connectSerial assigns them
GlobalsOf(ids) ==
  /\ lockState = "LOCKED"
  /\ entered = <<>>
  /\ port = "null"
  /\ reader = "undeclared"
  /\ nativePort = "undeclared"
  /\ connectBtn = "Connect to Arduino"
  /\ calls = [i \in ids |-> NoCall]
  /\ ports = [d \in Devices |-> "closed"]
  /\ alerts = 0
  /\ readers = [i \in ids |-> NoReader]
  /\ loops = [i \in ids |-> NoLoop]
  /\ line = <<>>
  /\ op = "init"
  /\ hist = <<>>
  /\ consumed = <<>>
  /\ forwarded = <<>>

Globals == GlobalsOf(CallIds)

Init == Globals /\ serial = TRUE

\* one call handleLine(l); line and op record the call
HandleLineCall(l) ==
  LET r == handleLine(lockState, entered, l) IN
    /\ lockState' = r.lockState
    /\ entered' = r.entered
    /\ line' = l
    /\ op' = "handleLine"
    /\ UNCHANGED <<port, connVars, readLog>>

Interpret == \E l \in Lines : HandleLineCall(l) /\ UNCHANGED hist

Next == Interpret

Spec == Init /\ [][Next]_vars

(***************************************************************************)
(* STATE: lines in every upper/lower-case spelling of the three names.     *)
(***************************************************************************)
lowerChar(c) ==
  IF Code(c) >= 65 /\ Code(c) <= 90 THEN Chr(Code(c) + 32) ELSE c

CaseVariants(name) ==
  { [i \in 1..Len(name) |-> IF i \in U THEN name[i] ELSE lowerChar(name[i])] :
      U \in SUBSET (1..Len(name)) }

StateNames == {UNLOCKED, WRONG, IDLE}

\* the lines STATE:<v>, v a spelling of n, for each name n
VariantLines == [n \in StateNames |-> { S(v) : v \in CaseVariants(n) }]

CaseLines ==
  UNION { VariantLines[n] : n \in StateNames } \cup { K(<<"5">>), K(STAR) }

InterpretCase == \E l \in CaseLines : HandleLineCall(l) /\ UNCHANGED hist

NextCase == InterpretCase

SpecCase == Init /\ [][NextCase]_vars

(***************************************************************************)
(* Every digit key, the delete key and a state change.                     *)
(***************************************************************************)
DigitKeys == {"0", "1", "2", "3", "4", "5", "6", "7", "8", "9"}

DigitLines == { K(<<d>>) : d \in DigitKeys } \cup { K(STAR), S(WRONG) }

InterpretDigit == \E l \in DigitLines : HandleLineCall(l) /\ UNCHANGED hist

NextDigits == InterpretDigit

SpecDigits == Init /\ [][NextDigits]_vars

(***************************************************************************)
(* Key presses only, with the sequence of lines processed so far.          *)
(***************************************************************************)
MaxHist == 5

KeyDigits == {"1", "2", "3", "4", "5", "7"}

KeyLines == { K(<<d>>) : d \in KeyDigits } \cup { K(STAR) }

InterpretKey ==
  \E l \in KeyLines :
    /\ Len(hist) < MaxHist
    /\ HandleLineCall(l)
    /\ hist' = Append(hist, l)

NextKeys == InterpretKey

SpecKeys == Init /\ [][NextKeys]_vars

(***************************************************************************)
(* The page: draw cycles, connectSerial() calls and forwarded lines.       *)
(***************************************************************************)
AppLines ==
  { K(<<"5">>), K(STAR), S(UNLOCKED), S(WRONG), S(IDLE), <<"5">> }

\* port && typeof port.opened === "function" && port.opened() && ...
AlwaysReady(p) == TRUE

portReady(p) == p # "null"

\* draw(): paints, then reads a line from port when there is one
Draw ==
  /\ IF portReady(port)
     THEN \E l \in AppLines :
            LET r == IF l # <<>> THEN handleLine(lockState, entered, trim(l))
                     ELSE St(lockState, entered)
            IN  /\ lockState' = r.lockState
                /\ entered' = r.entered
                /\ line' = IF l # <<>> THEN trim(l) ELSE line
     ELSE UNCHANGED <<lockState, entered, line>>
  /\ op' = "draw"
  /\ UNCHANGED <<port, connVars, hist, readLog>>

\* the name under which the reader created by call i is held in reader
readerName(i) == ToString(i)

readerId(g) == CHOOSE i \in DOMAIN calls : readerName(i) = g

\* reader.cancel() on the reader named g: its stream is closed and every
\* pending read() resolves with done, which ends the loops that wait on it
cancelReader(rs, ls, g) ==
  LET r == readerId(g) IN
    [readers |-> [rs EXCEPT ![r] = [src |-> "closed", queue |-> <<>>]],
     loops |-> [j \in DOMAIN ls |->
                  IF \E n \in 1..Len(rs[r].queue) : rs[r].queue[n] = j
                  THEN [ls[j] EXCEPT !.status = "done"] ELSE ls[j]]]

\* the try block that closes a previous connection: a record of the globals
\* it assigns, the ports, the readers and the loops.  Reading the undeclared
\* reader throws, which the catch swallows; closeOk is whether close() of an
\* open port resolves.
teardown(closeOk) ==
  LET same == [reader |-> reader, nativePort |-> nativePort,
               port |-> port, ports |-> ports,
               readers |-> readers, loops |-> loops]
  IN
  IF reader = "undeclared" THEN same
  ELSE
    LET c == IF reader = "null"
             THEN [readers |-> readers, loops |-> loops]
             ELSE cancelReader(readers, loops, reader)
        r1 == [same EXCEPT !.reader = "null", !.readers = c.readers,
                           !.loops = c.loops]
    IN
    IF nativePort = "undeclared" THEN r1
    ELSE
      LET r2 ==
            IF nativePort = "null" THEN r1
            ELSE IF ports[nativePort] = "open" /\ closeOk
            THEN [r1 EXCEPT !.ports[nativePort] = "closed",
                            !.nativePort = "null"]
            ELSE r1
      IN
      IF nativePort # "null" /\ r2.nativePort # "null" THEN r2
      ELSE IF portReady(port) THEN [r2 EXCEPT !.port = "null"] ELSE r2

\* a click on the enabled button: connectSerial() up to its first await of
\* the port request, or up to the alert when serial is not supported
ConnectClick(i) ==
  /\ connectBtn = "Connect to Arduino"
  /\ calls[i].at = "unused"
  /\ \A j \in DOMAIN calls : j < i => calls[j].at # "unused"
  /\ \E closeOk \in BOOLEAN :
       LET t == teardown(closeOk) IN
         /\ reader' = t.reader
         /\ nativePort' = t.nativePort
         /\ port' = t.port
         /\ ports' = t.ports
         /\ readers' = t.readers
         /\ loops' = t.loops
  /\ calls' = IF serial THEN [calls EXCEPT ![i].at = "requestPort"]
              ELSE [calls EXCEPT ![i].at = "failed", ![i].err = "unsupported"]
  /\ alerts' = IF serial THEN alerts ELSE alerts + 1
  /\ op' = "connect"
  /\ UNCHANGED <<lockState, entered, connectBtn, serial, line, hist, readLog>>

\* requestPort() resolves with device d; open() is called on it and rejects
\* at once when d is not closed
RequestResolve(i, d) ==
  /\ calls[i].at = "requestPort"
  /\ nativePort' = d
  /\ IF ports[d] = "closed"
     THEN /\ ports' = [ports EXCEPT ![d] = "opening"]
          /\ calls' = [calls EXCEPT ![i].at = "open", ![i].port = d]
          /\ alerts' = alerts
     ELSE /\ ports' = ports
          /\ calls' = [calls EXCEPT ![i].at = "failed", ![i].port = d,
                                     ![i].err = "open"]
          /\ alerts' = alerts + 1
  /\ op' = "connect"
  /\ UNCHANGED <<lockState, entered, port, reader, connectBtn, serial,
                 readers, loops, line, hist, readLog>>

\* the rejection is swallowed without an alert
RequestRejectSilent(i) ==
  /\ calls[i].at = "requestPort"
  /\ calls' = [calls EXCEPT ![i].at = "failed", ![i].err = "requestPort"]
  /\ op' = "connect"
  /\ UNCHANGED <<lockState, entered, port, reader, nativePort, connectBtn,
                 serial, ports, alerts, readers, loops, line, hist, readLog>>

\* requestPort() rejects (the user dismisses the chooser): alert
RequestReject(i) ==
  /\ calls[i].at = "requestPort"
  /\ calls' = [calls EXCEPT ![i].at = "failed", ![i].err = "requestPort"]
  /\ alerts' = alerts + 1
  /\ op' = "connect"
  /\ UNCHANGED <<lockState, entered, port, reader, nativePort, connectBtn,
                 serial, ports, readers, loops, line, hist, readLog>>

\* loop j calls reader.read() while the global reader is g: the read is
\* queued on that reader, or resolves with done when its stream is closed;
\* without a reader the call throws and the loop is gone
issueRead(rs, ls, j, g) ==
  IF g \in {"undeclared", "null"}
  THEN [readers |-> rs, loops |-> [ls EXCEPT ![j].status = "dead"]]
  ELSE
    LET r == readerId(g) IN
    IF rs[r].src = "closed"
    THEN [readers |-> rs, loops |-> [ls EXCEPT ![j].status = "done"]]
    ELSE [readers |-> [rs EXCEPT ![r].queue = Append(rs[r].queue, j)],
          loops |-> [ls EXCEPT ![j].status = "reading"]]

\* nativePort.readable is locked once it has been piped to a decoder
piped(rs, d) == \E k \in DOMAIN rs : rs[k].src = d

\* open() resolves: the stream of the port that nativePort names now is
\* piped to the decoder (pipeTo of a locked stream returns a rejected
\* promise and the decoder stays without input), reader is assigned, the
\* read loop starts and the button is disabled; a port that is not open has
\* no readable stream, the TypeError ends in the alert
OpenResolve(i) ==
  /\ calls[i].at = "open"
  /\ LET opened == [ports EXCEPT ![calls[i].port] = "open"] IN
       /\ ports' = opened
       /\ IF opened[nativePort] = "open"
          THEN LET rs == [readers EXCEPT ![i].src =
                            IF piped(readers, nativePort) THEN "dead"
                            ELSE nativePort]
                   t == issueRead(rs, loops, i, readerName(i))
               IN  /\ reader' = readerName(i)
                   /\ readers' = t.readers
                   /\ loops' = t.loops
                   /\ connectBtn' = "Connected"
                   /\ calls' = [calls EXCEPT ![i].at = "connected"]
                   /\ alerts' = alerts
          ELSE /\ calls' = [calls EXCEPT ![i].at = "failed",
                                          ![i].err = "readable"]
               /\ alerts' = alerts + 1
               /\ UNCHANGED <<reader, connectBtn, readers, loops>>
  /\ op' = "connect"
  /\ UNCHANGED <<lockState, entered, port, nativePort, serial, line, hist,
                 readLog>>

\* open() rejects (the port is claimed by another program): alert
OpenReject(i) ==
  /\ calls[i].at = "open"
  /\ ports' = [ports EXCEPT ![calls[i].port] = "closed"]
  /\ calls' = [calls EXCEPT ![i].at = "failed", ![i].err = "open"]
  /\ alerts' = alerts + 1
  /\ op' = "connect"
  /\ UNCHANGED <<lockState, entered, port, reader, nativePort, connectBtn,
                 serial, readers, loops, line, hist, readLog>>

Connect ==
  \E i \in DOMAIN calls :
    \/ ConnectClick(i)
    \/ \E d \in Devices : RequestResolve(i, d)
    \/ RequestReject(i)
    \/ OpenResolve(i)
    \/ OpenReject(i)

\* a line that a read loop forwards
Forward == \E l \in AppLines : HandleLineCall(l) /\ UNCHANGED hist

InitApp == Globals /\ serial \in BOOLEAN

NextApp == Draw \/ Connect \/ Forward

SpecApp == InitApp /\ [][NextApp]_vars

(***************************************************************************)
(* The read loop, src/sketch.js:130-144.                                   *)
(***************************************************************************)
NL == "\n"

hasNewline(b) == \E n \in 1..Len(b) : b[n] = NL

\* buf.indexOf("\n"), as the number of characters before the first newline
indexOfNewline(b) == (CHOOSE n \in 1..Len(b) :
                        b[n] = NL /\ \A m \in 1..(n - 1) : b[m] # NL) - 1

\* the lines are passed on as they are cut off, without trim()
RECURSIVE DrainNoTrim(_, _, _)
DrainNoTrim(st, b, out) ==
  IF ~hasNewline(b) THEN [st |-> st, buf |-> b, out |-> out]
  ELSE
    LET nl == indexOfNewline(b)
        l == SubSeq(b, 1, nl)
    IN  DrainNoTrim(IF l # <<>>
                    THEN handleLine(st.lockState, st.entered, l) ELSE st,
                    sliceFrom(b, nl + 1),
                    IF l # <<>> THEN Append(out, l) ELSE out)

\* the inner while loop: every complete line of b is cut off, trimmed and,
\* when it is not empty, passed to handleLine; out collects the lines passed
RECURSIVE drain(_, _, _)
drain(st, b, out) ==
  IF ~hasNewline(b) THEN [st |-> st, buf |-> b, out |-> out]
  ELSE
    LET nl == indexOfNewline(b)
        l == trim(SubSeq(b, 1, nl))
    IN  drain(IF l # <<>> THEN handleLine(st.lockState, st.entered, l) ELSE st,
              sliceFrom(b, nl + 1),
              IF l # <<>> THEN Append(out, l) ELSE out)

\* one turn of the loop of call j for the chunk v: an empty chunk is skipped
turn(j, v) ==
  IF v = <<>>
  THEN [st |-> St(lockState, entered), buf |-> loops[j].buf, out |-> <<>>]
  ELSE drain(St(lockState, entered), loops[j].buf \o v, <<>>)

\* the reader r has a source that delivers and a read() waiting
live(r) ==
  /\ readers[r].src \in Devices
  /\ ports[readers[r].src] = "open"
  /\ readers[r].queue # <<>>

\* read() on reader r resolves with the chunk v for the loop that has waited
\* longest; the loop works through buf and calls reader.read() again
ReadChunk(r, v) ==
  /\ live(r)
  /\ LET j == Head(readers[r].queue)
         t == turn(j, v)
         rs == [readers EXCEPT ![r].queue = Tail(readers[r].queue)]
         ls == [loops EXCEPT ![j].buf = t.buf]
         n == issueRead(rs, ls, j, reader)
     IN  /\ lockState' = t.st.lockState
         /\ entered' = t.st.entered
         /\ line' = IF t.out # <<>> THEN t.out[Len(t.out)] ELSE line
         /\ readers' = n.readers
         /\ loops' = n.loops
  /\ op' = "read"
  /\ UNCHANGED <<port, reader, nativePort, connectBtn, serial, calls, ports,
                 alerts>>

\* the end of the stream puts the button back
StreamDoneReenables(r) ==
  /\ readers[r].src \in Devices
  /\ LET c == cancelReader(readers, loops, readerName(r)) IN
       /\ readers' = c.readers
       /\ loops' = c.loops
  /\ connectBtn' = "Connect to Arduino"
  /\ op' = "done"
  /\ UNCHANGED <<lockState, entered, port, reader, nativePort, serial, calls,
                 ports, alerts, line, hist, readLog>>

\* the stream of reader r ends: every read() waiting on it resolves with
\* done and the loops that wait leave their while loop
StreamDone(r) ==
  /\ readers[r].src \in Devices
  /\ LET c == cancelReader(readers, loops, readerName(r)) IN
       /\ readers' = c.readers
       /\ loops' = c.loops
  /\ op' = "done"
  /\ UNCHANGED <<lockState, entered, port, reader, nativePort, connectBtn,
                 serial, calls, ports, alerts, line, hist, readLog>>

(***************************************************************************)
(* One connection and the chunks of its stream.                            *)
(***************************************************************************)
MaxChunks == 4

Chunks ==
  { <<>>,
    <<NL>>,
    <<" ", "\r", NL>>,
    K(<<"5", "\r", NL>>),
    <<"K", "E">>,
    <<"Y", ":", "5", NL, "S", "T", "A">>,
    <<"T", "E", ":", "W", "R", "O", "N", "G", NL, NL, "K", "E", "Y", ":", "*">>,
    S(IDLE) \o <<NL>> \o K(<<"5">>) \o <<NL>> \o S(<<"U", "N">>),
    <<"L", "O", "C", "K", "E", "D", " ", NL>> }

ReadStream ==
  \E r \in DOMAIN calls, v \in Chunks :
    /\ Len(hist) < MaxChunks
    /\ ReadChunk(r, v)
    /\ hist' = Append(hist, v)
    /\ consumed' = consumed \o v
    /\ forwarded' = forwarded \o turn(Head(readers[r].queue), v).out

EndStream == \E r \in DOMAIN calls : StreamDone(r)

ConnectOnce ==
  \/ ConnectClick(1)
  \/ \E d \in Devices : RequestResolve(1, d)
  \/ OpenResolve(1)

NextRead == ConnectOnce \/ ReadStream \/ EndStream \/ Draw

SpecRead == Init /\ [][NextRead]_vars

(***************************************************************************)
(* Clicks that overlap: connectSerial() calls, their read loops, streams.  *)
(***************************************************************************)
MaxOverlap == 3

ConnChunks == { S(WRONG) \o <<NL>> }

Deliver ==
  \E r \in DOMAIN calls, v \in ConnChunks :
    ReadChunk(r, v) /\ UNCHANGED <<hist, readLog>>

InitConn == GlobalsOf(1..MaxOverlap) /\ serial \in BOOLEAN

NextConn == Connect \/ Deliver \/ EndStream

SpecConn == InitConn /\ [][NextConn]_vars

(***************************************************************************)
(* Properties of handleLine.                                               *)
(***************************************************************************)
DecimalDigits == {"0", "1", "2", "3", "4", "5", "6", "7", "8", "9"}

IsKeyLine(l) == startsWith(l, KEY_PREFIX)
IsStateLine(l) == startsWith(l, STATE_PREFIX)

\* the trimmed payload of a KEY: line, of a STATE: line (uppercased)
KeyPayload(l) == trim(sliceFrom(l, Len(KEY_PREFIX)))
StatePayload(l) == toUpperCase(trim(sliceFrom(l, Len(STATE_PREFIX))))

\* a line the interface description gives no effect to
Unrecognized(l) ==
  \/ ~IsKeyLine(l) /\ ~IsStateLine(l)
  \/ /\ IsKeyLine(l)
     /\ ~(\E d \in DecimalDigits : KeyPayload(l) = <<d>>)
     /\ KeyPayload(l) # STAR
  \/ /\ IsStateLine(l)
     /\ StatePayload(l) \notin {UNLOCKED, WRONG, IDLE}

Handled == op' = "handleLine"

\* C1: in every reachable state Entered Digits has length at most 4.
C1_LengthAtMost4 == Len(entered) <= 4

\* C2: a handleLine call with an unrecognized line (no KEY:/STATE: prefix,
\* a KEY: payload that is not exactly one decimal digit or '*', a STATE:
\* payload that is not UNLOCKED, WRONG or IDLE) leaves Lock State and
\* Entered Digits unchanged.
C2_UnrecognizedIgnored ==
  [][Handled /\ Unrecognized(line')
       => lockState' = lockState /\ entered' = entered]_vars

\* C3: handleLine('KEY:d') for a decimal digit d with fewer than 4 Entered
\* Digits appends d (length + 1, last character d, earlier characters kept)
\* and leaves Lock State unchanged.
C3_DigitAppended ==
  [][\A d \in DecimalDigits :
       Handled /\ line' = K(<<d>>) /\ Len(entered) < 4
         => /\ Len(entered') = Len(entered) + 1
            /\ entered'[Len(entered')] = d
            /\ \A i \in 1..Len(entered) : entered'[i] = entered[i]
            /\ lockState' = lockState]_vars

C3_Witness ==
  op = "handleLine" /\ line = K(<<"5">>) /\ entered = <<"0", "9", "5">>

\* C4: handleLine('KEY:d') for a decimal digit d with exactly 4 Entered
\* Digits leaves Entered Digits and Lock State unchanged.
C4_FullDropsDigit ==
  [][\A d \in DecimalDigits :
       Handled /\ line' = K(<<d>>) /\ Len(entered) = 4
         => entered' = entered /\ lockState' = lockState]_vars

C4_Witness ==
  /\ op = "handleLine" /\ line = K(<<"9">>)
  /\ entered = <<"0", "5", "0", "5">>

\* C5: handleLine('KEY:*') removes exactly the last character of non-empty
\* Entered Digits and keeps the prefix, changes nothing when Entered Digits
\* is empty, and leaves Lock State unchanged in both cases.
C5_StarDeletesLast ==
  [][Handled /\ line' = K(STAR)
       => /\ lockState' = lockState
          /\ IF entered = <<>> THEN entered' = <<>>
             ELSE /\ Len(entered') = Len(entered) - 1
                  /\ \A i \in 1..Len(entered') : entered'[i] = entered[i]]_vars

C5_Witness ==
  op = "handleLine" /\ line = K(STAR) /\ entered = <<"0", "5", "9">>

\* C6: from every state handleLine('STATE:UNLOCKED') gives Lock State
\* UNLOCKED and empty Entered Digits, and handleLine('STATE:WRONG') gives
\* Lock State WRONG and empty Entered Digits.
C6_UnlockedWrongClear ==
  [][/\ Handled /\ line' = S(UNLOCKED)
         => lockState' = "UNLOCKED" /\ entered' = <<>>
     /\ Handled /\ line' = S(WRONG)
         => lockState' = "WRONG" /\ entered' = <<>>]_vars

C6_Witness ==
  op = "handleLine" /\ line = S(WRONG) /\ lockState = "WRONG"
    /\ entered = <<>>

\* C7: from every state handleLine('STATE:IDLE') sets Lock State to LOCKED
\* and leaves Entered Digits as it was.
C7_IdleLocksKeepsDigits ==
  [][Handled /\ line' = S(IDLE)
       => lockState' = "LOCKED" /\ entered' = entered]_vars

C7_Witness ==
  op = "handleLine" /\ line = S(IDLE) /\ lockState = "LOCKED"
    /\ Len(entered) = 4

\* C9: for every upper/lower-case spelling v of UNLOCKED, WRONG or IDLE,
\* handleLine('STATE:' + v) gives the Lock State and Entered Digits that
\* handleLine('STATE:' + NAME) gives from the same state; 'STATE:wrong'
\* gives WRONG.
C9_CaseInsensitive ==
  [][/\ \A n \in StateNames :
          Handled /\ line' \in VariantLines[n]
            => St(lockState', entered') = handleLine(lockState, entered, S(n))
     /\ Handled /\ line' = S(<<"w", "r", "o", "n", "g">>)
          => lockState' = "WRONG"]_vars

C9_Witness ==
  /\ op = "handleLine"
  /\ line = S(<<"U", "n", "L", "o", "c", "K", "e", "d">>)
  /\ lockState = "UNLOCKED"
  /\ entered = <<>>

\* the reference stack of capacity 4: a digit is pushed unless the stack is
\* full, '*' pops unless it is empty
RefStep(stk, l) ==
  IF l = K(STAR)
  THEN IF stk = <<>> THEN stk ELSE SubSeq(stk, 1, Len(stk) - 1)
  ELSE IF Len(stk) = 4 THEN stk ELSE Append(stk, l[Len(l)])

RECURSIVE RefStack(_)
RefStack(h) ==
  IF h = <<>> THEN <<>>
  ELSE RefStep(RefStack(SubSeq(h, 1, Len(h) - 1)), h[Len(h)])

\* C10: starting from empty Entered Digits, after any sequence of lines
\* KEY:<digit> and KEY:* Entered Digits equals the reference stack of
\* capacity 4 driven by the same sequence; KEY:1..KEY:5 gives "1234" and
\* KEY:7, KEY:*, KEY:* gives "".
C10_RefinesStack ==
  /\ entered = RefStack(hist)
  /\ hist = <<K(<<"1">>), K(<<"2">>), K(<<"3">>), K(<<"4">>), K(<<"5">>)>>
       => entered = <<"1", "2", "3", "4">>
  /\ hist = <<K(<<"7">>), K(STAR), K(STAR)>> => entered = <<>>

C10_Witness ==
  /\ hist = <<K(<<"1">>), K(<<"2">>), K(<<"3">>), K(<<"4">>), K(<<"5">>)>>
  /\ entered = <<"1", "2", "3", "4">>

\* some forwarded line takes Lock State to t in one step
CanReach(ls, en, t) ==
  \E l \in AppLines : handleLine(ls, en, l).lockState = t

AllStatesReachable(ls, en) == \A t \in LockStates : CanReach(ls, en, t)

\* C8: Lock State is LOCKED initially, is always LOCKED, UNLOCKED or WRONG,
\* changes only in a step that processes a STATE: line (never on a KEY:
\* line, another line, a draw cycle or a connect step), and each of the
\* three states stays reachable from every state.
C8_LockStateMachine ==
  /\ lockState = "LOCKED" /\ AllStatesReachable(lockState, entered)
  /\ [][/\ lockState' \in LockStates
        /\ AllStatesReachable(lockState', entered')
        /\ lockState' # lockState
             => op' = "handleLine" /\ IsStateLine(line')]_vars

C8_Witness ==
  /\ op = "draw"
  /\ lockState = "WRONG"
  /\ line = K(STAR)
  /\ connectBtn = "Connected"

\* C19: in every state reachable by handleLine calls every character of
\* Entered Digits is a decimal digit '0'..'9'.
C19_OnlyDigits == \A i \in 1..Len(entered) : entered[i] \in DecimalDigits

\* C15: a draw() cycle never changes Lock State or Entered Digits; the
\* serial-reading branch at its end never dispatches a line.
C15_DrawReadsOnly ==
  [][op' = "draw"
       => lockState' = lockState /\ entered' = entered /\ line' = line]_vars

C15_Witness ==
  /\ op = "draw"
  /\ lockState = "UNLOCKED"
  /\ entered = <<"5", "5">>
  /\ connectBtn = "Connected"

\* the newline-terminated segments of the text t, trimmed, without the
\* empty ones; cur is the segment being read
RECURSIVE SegmentsFrom(_, _)
SegmentsFrom(t, cur) ==
  IF t = <<>> THEN <<>>
  ELSE IF Head(t) = NL
  THEN (IF trim(cur) # <<>> THEN <<trim(cur)>> ELSE <<>>)
         \o SegmentsFrom(Tail(t), <<>>)
  ELSE SegmentsFrom(Tail(t), Append(cur, Head(t)))

Segments(t) == SegmentsFrom(t, <<>>)

\* C11: whatever the stream and its split into chunks (empty chunks, chunks
\* that cut a line, chunks with several lines), the lines the read loop has
\* forwarded are exactly the newline-terminated segments of the text
\* received whose trimmed text is not empty, trimmed, once each and in
\* order; they depend on the text only, not on the chunk boundaries.
C11_ForwardsSegments == forwarded = Segments(consumed)

C11_Witness ==
  /\ hist = << <<"K", "E">>, <<>>, <<"Y", ":", "5", NL, "S", "T", "A">>,
               <<"T", "E", ":", "W", "R", "O", "N", "G", NL, NL,
                 "K", "E", "Y", ":", "*">> >>
  /\ forwarded = << K(<<"5">>), S(WRONG) >>
  /\ lockState = "WRONG"

\* the two globals after handleLine has run on each line of ls in turn
RECURSIVE Applied(_)
Applied(ls) ==
  IF ls = <<>> THEN St("LOCKED", <<>>)
  ELSE LET before == Applied(SubSeq(ls, 1, Len(ls) - 1)) IN
         handleLine(before.lockState, before.entered, ls[Len(ls)])

LastForwarded == forwarded[Len(forwarded)]

\* C16: between any two steps of the read loop, so at every draw, Lock
\* State and Entered Digits are the result of whole lines: they equal the
\* forwarded lines applied one after the other, and when the last forwarded
\* line is STATE:UNLOCKED or STATE:WRONG the new Lock State is never seen
\* with Entered Digits not yet cleared.
C16_NoPartialLine ==
  /\ St(lockState, entered) = Applied(forwarded)
  /\ forwarded # <<>> /\ LastForwarded \in {S(UNLOCKED), S(WRONG)}
       => /\ entered = <<>>
          /\ lockState = IF LastForwarded = S(WRONG) THEN "WRONG"
                         ELSE "UNLOCKED"

C16_Witness ==
  /\ op = "draw"
  /\ forwarded = << K(<<"5">>), S(WRONG) >>
  /\ lockState = "WRONG"
  /\ entered = <<>>

(***************************************************************************)
(* Properties of connectSerial(): overlapping calls, failures, the button. *)
(***************************************************************************)
Reading == { j \in DOMAIN loops : loops[j].status = "reading" }

\* C17: at any time at most one read loop is consuming serial data, and no
\* reader has the read() of two loops waiting on it, however the
\* connectSerial() calls interleave.
C17_OneReadLoop ==
  /\ Cardinality(Reading) <= 1
  /\ \A r \in DOMAIN readers : Len(readers[r].queue) <= 1

Finished == { j \in DOMAIN loops : loops[j].status = "done" }

\* C12: a read loop that got done stays ended and forwards nothing more,
\* its leftover buffer included; the steps of the read loops raise no
\* alert; and once a loop has ended, Lock State and Entered Digits keep the
\* values they have.
C12_DoneEndsLoop ==
  [][/\ \A j \in Finished : loops'[j] = loops[j]
     /\ op' \in {"read", "done"} => alerts' = alerts
     /\ Finished # {} => lockState' = lockState /\ entered' = entered]_vars

\* the call i goes on to requestPort() in this step
Requests(i) == calls[i].at = "unused" /\ calls'[i].at = "requestPort"

\* C13: when a connectSerial() call goes on to requestPort(), no port that
\* an earlier call opened is still open and no earlier reader is still
\* attached to a port.
C13_ClosesBeforeRequest ==
  [][\A i \in DOMAIN calls :
       Requests(i) => /\ \A d \in Devices : ports'[d] # "open"
                      /\ \A r \in DOMAIN readers :
                           readers'[r].src \notin Devices]_vars

\* the call i fails in this step for one of the three reasons
Fails(i) ==
  /\ calls[i].at # "failed"
  /\ calls'[i].at = "failed"
  /\ calls'[i].err \in {"unsupported", "requestPort", "open"}

C18_ConnectedIsFinal ==
  [][/\ connectBtn # "Connected" /\ connectBtn' = "Connected" =>
          \E i \in DOMAIN calls :
            /\ calls[i].at = "open" /\ calls'[i].at = "connected"
            /\ ports'[calls[i].port] = "open"
            /\ loops[i].status = "none" /\ loops'[i].status = "reading"
     /\ connectBtn = "Connected" => connectBtn' = "Connected"]_vars

C18_Witness ==
  /\ connectBtn = "Connected"
  /\ op = "done"
  /\ Finished # {}
  /\ Reading = {}

====
